---- MODULE Spec2Model ----
(***************************************************************************)
(* Control plane of StyleGAN.py's train(): the per-worker training loop,   *)
(* its collective operations (per-batch barrier, gradient synchronisation  *)
(* of the DistributedDataParallel backward passes), the rank-0-only        *)
(* checkpoint saves and sample reports, and crash/resume through the       *)
(* checkpoint on disk.                                                     *)
(*                                                                         *)
(* train() is in src/StyleGAN.py.  lod_driver.LODDriver,                   *)
(* scheduler.ComboMultiStepLR and checkpointer.Checkpointer are modules of *)
(* the repository that are not part of the source tree at hand; they are   *)
(* modelled from sections 3 and 4 of the specification.                    *)
(***************************************************************************)
EXTENDS Integers, Sequences, FiniteSets, TLC

VARIABLES
    world_size,   \* number of workers running train()
    pc,           \* each worker's position in train()
    loaded,       \* the manifest checkpointer.load() restored in each worker
    loads,        \* number of checkpointer.load() calls of each worker
    sched_epoch,  \* ComboMultiStepLR: the epoch counter (start_epoch())
    lr,           \* each optimizer's param_groups lr (current_lr)
    sched_bs,     \* ComboMultiStepLR: batch size of the last set_batch_size (0: none yet)
    sched_lod,    \* ComboMultiStepLR: lod of the last set_batch_size
    rangeNext,    \* next value of range(start_epoch, TRAIN_EPOCHS)
    epoch,        \* the loop variable epoch
    drv,          \* LODDriver: current_epoch, iteration, cadence counters
    batchIdx,     \* batches the data loader has yielded in this epoch
    shape0,       \* x_orig.shape[0] of the current batch
    xAssigned,    \* whether the local x is bound
    dSteps,       \* completed discriminator_optimizer.step() calls
    gSteps,       \* completed generator_optimizer.step() calls
    batchLog,     \* calls made for the current batch, in order
    epochLog,     \* calls made in the current epoch, in order
    hasSaved,     \* whether the worker has invoked checkpointer.save
    snap,         \* each worker's state when it last arrived at the barrier
    pending,      \* manifests of dispatched saves not yet written
    disk,         \* the checkpoint load() finds (last completed save)
    restarts,     \* crash/restarts so far
    mismatched    \* whether mismatched collectives have completed in this run

vars == <<world_size, pc, loaded, loads, sched_epoch, lr, sched_bs, sched_lod,
          rangeNext, epoch, drv, batchIdx, shape0, xAssigned, dSteps, gSteps,
          batchLog, epochLog, hasSaved, snap, pending, disk, restarts, mismatched>>

(***************************************************************************)
(* Bounds of the model.                                                    *)
(***************************************************************************)
MaxWorkers == 2
TRAIN_EPOCHS == 4
NumBatches == 2
MaxRestarts == 1
MaxPending == 2

(***************************************************************************)
(* Configuration (cfg) and the Schedule Table.                             *)
(***************************************************************************)
LayerCount == 2
EPOCHS_PER_LOD == 2
reference_batch_size == 32
\* Learning rates are integers in units of 1e-6.
BASE_LEARNING_RATE == 1500
GammaNum == 1
GammaDen == 10
SaveInterval == 2
ReportInterval == 3

LEARNING_DECAY_STEPS == {1, 3}

LEARNING_RATES(lod) == IF lod = 0 THEN 1000 ELSE 2000

BatchSizeOfLod(lod) == IF lod = 0 THEN 512 ELSE 256

Optimizers == {"generator", "discriminator"}

Lods == 0 .. (LayerCount - 1)

Min(a, b) == IF a < b THEN a ELSE b

Workers == 0 .. (world_size - 1)

\* Batch sizes are divisible by the world size in every valid configuration
\* (get_per_GPU_batch_size fails at startup otherwise).
ValidWorldSizes == {n \in 1 .. MaxWorkers : \A l \in Lods : BatchSizeOfLod(l) % n = 0}

(***************************************************************************)
(* LOD Driver (lod_driver.LODDriver).                                      *)
(***************************************************************************)
\* lod as derived from the epoch through the Schedule Table.
LodOfEpoch(e) == Min(e \div EPOCHS_PER_LOD, LayerCount - 1)

\* Epochs of a LOD's budget reserved for the fade-in from the previous LOD.
FadeEpochs == EPOCHS_PER_LOD \div 2

\* Epochs elapsed since the LOD of epoch e began.
EpochInLod(e) == e - LodOfEpoch(e) * EPOCHS_PER_LOD

InTransition(e) == LodOfEpoch(e) > 0 /\ EpochInLod(e) < FadeEpochs

\* get_blend_factor(), as a numerator over FadeEpochs * NumBatches: the
\* fractional progress through the fade-in window; 0 outside a transition.
BlendFactor(e, it) ==
    IF InTransition(e)
    THEN Min(EpochInLod(e) * NumBatches + it, FadeEpochs * NumBatches)
    ELSE 0

NewDriver == [current_epoch |-> 0, iteration |-> 0, save_ctr |-> 0, report_ctr |-> 0]

\* set_epoch(epoch, optimizers): recomputes lod / in_transition, iteration := 0.
DriverSetEpoch(d, e) == [d EXCEPT !.current_epoch = e, !.iteration = 0]

\* step(): one more processed batch; the cadence counters advance with it.
DriverStepOp(d) ==
    [d EXCEPT !.iteration = @ + 1, !.save_ctr = @ + 1, !.report_ctr = @ + 1]

IsTimeToSave(d) == d.save_ctr >= SaveInterval

IsTimeToReport(d) == d.report_ctr >= ReportInterval

GetBatchSize(d) == BatchSizeOfLod(LodOfEpoch(d.current_epoch))

GetPerGPUBatchSize(d) == GetBatchSize(d) \div world_size

DriverLod(d) == LodOfEpoch(d.current_epoch)

DriverBlend(d) == BlendFactor(d.current_epoch, d.iteration)

(***************************************************************************)
(* Learning-rate / batch-size Coordinator (scheduler.ComboMultiStepLR).    *)
(***************************************************************************)
\* set_batch_size(batch_size, lod): current_lr = base_lr * batch_size / reference.
ScaledLr(bs, lod) == (LEARNING_RATES(lod) * bs) \div reference_batch_size

\* step(): the milestones the counter crosses when it moves from old to new.
Crossed(old, new) == {m \in LEARNING_DECAY_STEPS : old < m /\ m <= new}

RECURSIVE Decay(_, _)
Decay(rate, k) == IF k = 0 THEN rate ELSE Decay((rate * GammaNum) \div GammaDen, k - 1)

\* Milestones passed by an epoch counter.
MilestonesPassed(n) == Cardinality({m \in LEARNING_DECAY_STEPS : m <= n})

RECURSIVE Pow(_, _)
Pow(b, k) == IF k = 0 THEN 1 ELSE b * Pow(b, k - 1)

(***************************************************************************)
(* Checkpoint manifests (checkpointer.Checkpointer).                       *)
(***************************************************************************)
\* No checkpoint file: load() leaves every component as constructed.
NoCheckpoint ==
    [tag |-> "none", epoch |-> 0, lr |-> [o \in Optimizers |-> 0],
     at_epoch |-> 0, at_lod |-> 0, at_blend |-> 0]

\* The state save(tag) serialises: the registered scheduler and optimizers.
\* at_epoch, at_lod and at_blend are not part of the file: they record the
\* saving worker's loop epoch and LOD Driver values at the save.
Manifest(w, tag) ==
    [tag |-> tag, epoch |-> sched_epoch[w], lr |-> lr[w],
     at_epoch |-> epoch[w],
     at_lod |-> DriverLod(drv[w]), at_blend |-> DriverBlend(drv[w])]

\* Variant: every rank takes the coordinating worker's branches.
AnyRank(w) == w >= 0

\* local_rank == 0
IsCoordinator(w) == w = 0

NoSnap == [epoch |-> -1, batch |-> 0, iteration |-> 0, d |-> 0, g |-> 0]

FreshWorkers(n) ==
    /\ world_size' = n
    /\ pc' = [w \in 0 .. (n - 1) |-> "start"]
    /\ loaded' = [w \in 0 .. (n - 1) |-> NoCheckpoint]
    /\ loads' = [w \in 0 .. (n - 1) |-> 0]
    /\ sched_epoch' = [w \in 0 .. (n - 1) |-> 0]
    /\ lr' = [w \in 0 .. (n - 1) |-> [o \in Optimizers |-> BASE_LEARNING_RATE]]
    /\ sched_bs' = [w \in 0 .. (n - 1) |-> 0]
    /\ sched_lod' = [w \in 0 .. (n - 1) |-> 0]
    /\ rangeNext' = [w \in 0 .. (n - 1) |-> 0]
    /\ epoch' = [w \in 0 .. (n - 1) |-> 0]
    /\ drv' = [w \in 0 .. (n - 1) |-> NewDriver]
    /\ batchIdx' = [w \in 0 .. (n - 1) |-> 0]
    /\ shape0' = [w \in 0 .. (n - 1) |-> 0]
    /\ xAssigned' = [w \in 0 .. (n - 1) |-> FALSE]
    /\ dSteps' = [w \in 0 .. (n - 1) |-> 0]
    /\ gSteps' = [w \in 0 .. (n - 1) |-> 0]
    /\ batchLog' = [w \in 0 .. (n - 1) |-> <<>>]
    /\ epochLog' = [w \in 0 .. (n - 1) |-> <<>>]
    /\ hasSaved' = [w \in 0 .. (n - 1) |-> FALSE]
    /\ snap' = [w \in 0 .. (n - 1) |-> NoSnap]
    /\ pending' = <<>>
    /\ mismatched' = FALSE

Init ==
    /\ world_size \in ValidWorldSizes
    /\ pc = [w \in Workers |-> "start"]
    /\ loaded = [w \in Workers |-> NoCheckpoint]
    /\ loads = [w \in Workers |-> 0]
    /\ sched_epoch = [w \in Workers |-> 0]
    /\ lr = [w \in Workers |-> [o \in Optimizers |-> BASE_LEARNING_RATE]]
    /\ sched_bs = [w \in Workers |-> 0]
    /\ sched_lod = [w \in Workers |-> 0]
    /\ rangeNext = [w \in Workers |-> 0]
    /\ epoch = [w \in Workers |-> 0]
    /\ drv = [w \in Workers |-> NewDriver]
    /\ batchIdx = [w \in Workers |-> 0]
    /\ shape0 = [w \in Workers |-> 0]
    /\ xAssigned = [w \in Workers |-> FALSE]
    /\ dSteps = [w \in Workers |-> 0]
    /\ gSteps = [w \in Workers |-> 0]
    /\ batchLog = [w \in Workers |-> <<>>]
    /\ epochLog = [w \in Workers |-> <<>>]
    /\ hasSaved = [w \in Workers |-> FALSE]
    /\ snap = [w \in Workers |-> NoSnap]
    /\ pending = <<>>
    /\ disk = NoCheckpoint
    /\ restarts = 0
    /\ mismatched = FALSE

(***************************************************************************)
(* train(): one worker's steps.                                            *)
(***************************************************************************)
Goto(w, l) == pc' = [pc EXCEPT ![w] = l]

LogBatch(w, ev) == batchLog' = [batchLog EXCEPT ![w] = Append(@, ev)]

LogEpoch(w, ev) == epochLog' = [epochLog EXCEPT ![w] = Append(@, ev)]

\* checkpointer.save(tag): the manifest is handed to the asynchronous writer.
Save(w, tag) ==
    /\ Len(pending) < MaxPending
    /\ pending' = Append(pending, Manifest(w, tag))
    /\ hasSaved' = [hasSaved EXCEPT ![w] = TRUE]

\* checkpointer.load(): restores the registered scheduler and optimizers from
\* the checkpoint file when there is one.
Load(w) ==
    /\ pc[w] = "start"
    /\ loads' = [loads EXCEPT ![w] = @ + 1]
    /\ loaded' = [loaded EXCEPT ![w] = disk]
    /\ sched_epoch' = [sched_epoch EXCEPT ![w] = IF disk.tag = "none" THEN @ ELSE disk.epoch]
    /\ lr' = [lr EXCEPT ![w] = IF disk.tag = "none" THEN @ ELSE disk.lr]
    /\ Goto(w, "enter_loop")
    /\ UNCHANGED <<world_size, sched_bs, sched_lod, rangeNext, epoch, drv, batchIdx,
                   shape0, xAssigned, dSteps, gSteps, batchLog, epochLog, hasSaved,
                   snap, pending, disk, restarts, mismatched>>

\* Variant: the main loop resumes one epoch after start_epoch().
RangeStartOffByOne(w) == sched_epoch[w] + 1

\* First value of range(scheduler.start_epoch(), cfg.TRAIN.TRAIN_EPOCHS).
RangeStart(w) == sched_epoch[w]

\* The LOD Driver is constructed and the epoch range is created.
EnterLoop(w) ==
    /\ pc[w] = "enter_loop"
    /\ drv' = [drv EXCEPT ![w] = NewDriver]
    /\ rangeNext' = [rangeNext EXCEPT ![w] = RangeStart(w)]
    /\ Goto(w, "loop_head")
    /\ UNCHANGED <<world_size, loaded, loads, sched_epoch, lr, sched_bs, sched_lod,
                   epoch, batchIdx, shape0, xAssigned, dSteps, gSteps, batchLog,
                   epochLog, hasSaved, snap, pending, disk, restarts, mismatched>>

\* for epoch in range(...): the next epoch, or the end of the main loop.
LoopHead(w) ==
    /\ pc[w] = "loop_head"
    /\ IF rangeNext[w] < TRAIN_EPOCHS
       THEN /\ epoch' = [epoch EXCEPT ![w] = rangeNext[w]]
            /\ rangeNext' = [rangeNext EXCEPT ![w] = @ + 1]
            /\ epochLog' = [epochLog EXCEPT ![w] = <<>>]
            /\ Goto(w, "set_epoch")
       ELSE /\ Goto(w, "finish")
            /\ UNCHANGED <<epoch, rangeNext, epochLog>>
    /\ UNCHANGED <<world_size, loaded, loads, sched_epoch, lr, sched_bs, sched_lod,
                   drv, batchIdx, shape0, xAssigned, dSteps, gSteps, batchLog,
                   hasSaved, snap, pending, disk, restarts, mismatched>>

\* lod2batch.set_epoch(epoch, [generator_optimizer, discriminator_optimizer])
SetEpoch(w) ==
    /\ pc[w] = "set_epoch"
    /\ drv' = [drv EXCEPT ![w] = DriverSetEpoch(@, epoch[w])]
    /\ LogEpoch(w, "set_epoch")
    /\ Goto(w, "dataset_reset")
    /\ UNCHANGED <<world_size, loaded, loads, sched_epoch, lr, sched_bs, sched_lod,
                   rangeNext, epoch, batchIdx, shape0, xAssigned, dSteps, gSteps,
                   batchLog, hasSaved, snap, pending, disk, restarts, mismatched>>

\* dataset.reset(lod power, per-GPU batch size); make_dataloader(...)
DatasetReset(w) ==
    /\ pc[w] = "dataset_reset"
    /\ batchIdx' = [batchIdx EXCEPT ![w] = 0]
    /\ LogEpoch(w, "dataset_reset")
    /\ Goto(w, "set_batch_size")
    /\ UNCHANGED <<world_size, loaded, loads, sched_epoch, lr, sched_bs, sched_lod,
                   rangeNext, epoch, drv, shape0, xAssigned, dSteps, gSteps,
                   batchLog, hasSaved, snap, pending, disk, restarts, mismatched>>

\* scheduler.set_batch_size(lod2batch.get_batch_size(), lod2batch.lod)
SetBatchSize(w) ==
    /\ pc[w] = "set_batch_size"
    /\ sched_bs' = [sched_bs EXCEPT ![w] = GetBatchSize(drv[w])]
    /\ sched_lod' = [sched_lod EXCEPT ![w] = DriverLod(drv[w])]
    /\ lr' = [lr EXCEPT ![w] =
                [o \in Optimizers |-> ScaledLr(GetBatchSize(drv[w]), DriverLod(drv[w]))]]
    /\ LogEpoch(w, "set_batch_size")
    /\ Goto(w, "next_batch")
    /\ UNCHANGED <<world_size, loaded, loads, sched_epoch, rangeNext, epoch, drv,
                   batchIdx, shape0, xAssigned, dSteps, gSteps, batchLog, hasSaved,
                   snap, pending, disk, restarts, mismatched>>

\* First dimensions a batch of the data source can have: the configured per-GPU
\* batch size, or fewer elements (a trailing partial batch).
BatchShapes(w) == {GetPerGPUBatchSize(drv[w]), GetPerGPUBatchSize(drv[w]) - 1}

\* for x_orig in tqdm(batches): the data loader yields a batch.
FetchBatch(w) ==
    /\ pc[w] = "next_batch"
    /\ batchIdx[w] < NumBatches
    /\ \E s \in BatchShapes(w) : shape0' = [shape0 EXCEPT ![w] = s]
    /\ batchIdx' = [batchIdx EXCEPT ![w] = @ + 1]
    /\ batchLog' = [batchLog EXCEPT ![w] = <<>>]
    /\ epochLog' = [epochLog EXCEPT ![w] = IF batchIdx[w] = 0 THEN Append(@, "batches") ELSE @]
    /\ snap' = [snap EXCEPT ![w] =
                  [epoch |-> epoch[w], batch |-> batchIdx[w] + 1,
                   iteration |-> drv[w].iteration, d |-> dSteps[w], g |-> gSteps[w]]]
    /\ Goto(w, "barrier")
    /\ UNCHANGED <<world_size, loaded, loads, sched_epoch, lr, sched_bs, sched_lod,
                   rangeNext, epoch, drv, xAssigned, dSteps, gSteps, hasSaved,
                   pending, disk, restarts, mismatched>>

\* The data loader is exhausted: the batch loop ends.
BatchesExhausted(w) ==
    /\ pc[w] = "next_batch"
    /\ batchIdx[w] >= NumBatches
    /\ Goto(w, "sched_step")
    /\ UNCHANGED <<world_size, loaded, loads, sched_epoch, lr, sched_bs, sched_lod,
                   rangeNext, epoch, drv, batchIdx, shape0, xAssigned, dSteps,
                   gSteps, batchLog, epochLog, hasSaved, snap, pending, disk, restarts, mismatched>>

\* Variant: a skipped batch is still counted by the LOD Driver.
SkipBatchCounted(w) ==
    /\ pc[w] = "shape_check"
    /\ shape0[w] # GetPerGPUBatchSize(drv[w])
    /\ drv' = [drv EXCEPT ![w] = DriverStepOp(@)]
    /\ Goto(w, "next_batch")
    /\ UNCHANGED <<world_size, loaded, loads, sched_epoch, lr, sched_bs, sched_lod,
                   rangeNext, epoch, batchIdx, shape0, xAssigned, dSteps,
                   gSteps, batchLog, epochLog, hasSaved, snap, pending, disk, restarts, mismatched>>

\* if x_orig.shape[0] != lod2batch.get_per_GPU_batch_size(): continue
SkipBatch(w) ==
    /\ pc[w] = "shape_check"
    /\ shape0[w] # GetPerGPUBatchSize(drv[w])
    /\ Goto(w, "next_batch")
    /\ UNCHANGED <<world_size, loaded, loads, sched_epoch, lr, sched_bs, sched_lod,
                   rangeNext, epoch, drv, batchIdx, shape0, xAssigned, dSteps,
                   gSteps, batchLog, epochLog, hasSaved, snap, pending, disk, restarts, mismatched>>

\* The batch is blended into x; discriminator forward pass; tracker.update.
AcceptBatch(w) ==
    /\ pc[w] = "shape_check"
    /\ shape0[w] = GetPerGPUBatchSize(drv[w])
    /\ xAssigned' = [xAssigned EXCEPT ![w] = TRUE]
    /\ LogBatch(w, "tracker_d")
    /\ Goto(w, "d_backward")
    /\ UNCHANGED <<world_size, loaded, loads, sched_epoch, lr, sched_bs, sched_lod,
                   rangeNext, epoch, drv, batchIdx, shape0, dSteps, gSteps,
                   epochLog, hasSaved, snap, pending, disk, restarts, mismatched>>

\* discriminator_optimizer.step()
DStep(w) ==
    /\ pc[w] = "d_step"
    /\ dSteps' = [dSteps EXCEPT ![w] = @ + 1]
    /\ LogBatch(w, "d_step")
    /\ Goto(w, "ema")
    /\ UNCHANGED <<world_size, loaded, loads, sched_epoch, lr, sched_bs, sched_lod,
                   rangeNext, epoch, drv, batchIdx, shape0, xAssigned, gSteps,
                   epochLog, hasSaved, snap, pending, disk, restarts, mismatched>>

\* if local_rank == 0: model_s.lerp(model, betta)
SmoothUpdate(w) ==
    /\ pc[w] = "ema"
    /\ batchLog' = [batchLog EXCEPT ![w] = IF IsCoordinator(w) THEN Append(@, "ema") ELSE @]
    /\ Goto(w, "g_forward")
    /\ UNCHANGED <<world_size, loaded, loads, sched_epoch, lr, sched_bs, sched_lod,
                   rangeNext, epoch, drv, batchIdx, shape0, xAssigned, dSteps,
                   gSteps, epochLog, hasSaved, snap, pending, disk, restarts, mismatched>>

\* generator forward pass; tracker.update(dict(loss_g=loss_g))
GForward(w) ==
    /\ pc[w] = "g_forward"
    /\ LogBatch(w, "tracker_g")
    /\ Goto(w, "g_backward")
    /\ UNCHANGED <<world_size, loaded, loads, sched_epoch, lr, sched_bs, sched_lod,
                   rangeNext, epoch, drv, batchIdx, shape0, xAssigned, dSteps,
                   gSteps, epochLog, hasSaved, snap, pending, disk, restarts, mismatched>>

\* generator_optimizer.step()
GStep(w) ==
    /\ pc[w] = "g_step"
    /\ gSteps' = [gSteps EXCEPT ![w] = @ + 1]
    /\ LogBatch(w, "g_step")
    /\ Goto(w, "driver_step")
    /\ UNCHANGED <<world_size, loaded, loads, sched_epoch, lr, sched_bs, sched_lod,
                   rangeNext, epoch, drv, batchIdx, shape0, xAssigned, dSteps,
                   epochLog, hasSaved, snap, pending, disk, restarts, mismatched>>

\* lod2batch.step()
DriverStep(w) ==
    /\ pc[w] = "driver_step"
    /\ drv' = [drv EXCEPT ![w] = DriverStepOp(@)]
    /\ LogBatch(w, "driver_step")
    /\ Goto(w, "cadence")
    /\ UNCHANGED <<world_size, loaded, loads, sched_epoch, lr, sched_bs, sched_lod,
                   rangeNext, epoch, batchIdx, shape0, xAssigned, dSteps, gSteps,
                   epochLog, hasSaved, snap, pending, disk, restarts, mismatched>>

\* if local_rank == 0: is_time_to_save() -> save("model_tmp_intermediate");
\* is_time_to_report() -> save_sample(...).  Each cadence check that fires
\* resets its counter.
Cadence(w) ==
    /\ pc[w] = "cadence"
    /\ IF IsCoordinator(w)
       THEN /\ drv' = [drv EXCEPT
                         ![w].save_ctr = IF IsTimeToSave(drv[w]) THEN 0 ELSE @,
                         ![w].report_ctr = IF IsTimeToReport(drv[w]) THEN 0 ELSE @]
            /\ IF IsTimeToSave(drv[w])
               THEN Save(w, "model_tmp_intermediate")
               ELSE UNCHANGED <<pending, hasSaved>>
            /\ LogBatch(w, "cadence")
       ELSE UNCHANGED <<drv, pending, hasSaved, batchLog>>
    /\ Goto(w, "next_batch")
    /\ UNCHANGED <<world_size, loaded, loads, sched_epoch, lr, sched_bs, sched_lod,
                   rangeNext, epoch, batchIdx, shape0, xAssigned, dSteps, gSteps,
                   epochLog, snap, disk, restarts, mismatched>>

\* Variant: the end-of-epoch checkpoint is saved before scheduler.step().
SaveBeforeSchedulerStep(w) ==
    /\ pc[w] = "sched_step"
    /\ IF IsCoordinator(w)
       THEN /\ Save(w, "model_tmp")
            /\ epochLog' = [epochLog EXCEPT ![w] = Append(Append(@, "save"), "sched_step")]
       ELSE /\ LogEpoch(w, "sched_step")
            /\ UNCHANGED <<pending, hasSaved>>
    /\ sched_epoch' = [sched_epoch EXCEPT ![w] = @ + 1]
    /\ lr' = [lr EXCEPT ![w] =
                [o \in Optimizers |->
                    Decay(lr[w][o],
                          Cardinality(Crossed(sched_epoch[w], sched_epoch[w] + 1)))]]
    /\ Goto(w, IF IsCoordinator(w) THEN "loop_head" ELSE "epoch_save")
    /\ UNCHANGED <<world_size, loaded, loads, sched_bs, sched_lod, rangeNext, epoch,
                   drv, batchIdx, shape0, xAssigned, dSteps, gSteps, batchLog,
                   snap, disk, restarts, mismatched>>

\* scheduler.step(): the epoch counter advances; current_lr is multiplied by
\* gamma for each milestone the counter crosses.
SchedulerStep(w) ==
    /\ pc[w] = "sched_step"
    /\ sched_epoch' = [sched_epoch EXCEPT ![w] = @ + 1]
    /\ lr' = [lr EXCEPT ![w] =
                [o \in Optimizers |->
                    Decay(lr[w][o],
                          Cardinality(Crossed(sched_epoch[w], sched_epoch[w] + 1)))]]
    /\ LogEpoch(w, "sched_step")
    /\ Goto(w, "epoch_save")
    /\ UNCHANGED <<world_size, loaded, loads, sched_bs, sched_lod, rangeNext, epoch,
                   drv, batchIdx, shape0, xAssigned, dSteps, gSteps, batchLog,
                   hasSaved, snap, pending, disk, restarts, mismatched>>

\* if local_rank == 0: checkpointer.save("model_tmp"); save_sample(..., x, ...).
\* The report reads the local x: with x unbound the worker leaves train() by
\* an exception.
EpochSave(w) ==
    /\ pc[w] = "epoch_save"
    /\ IF IsCoordinator(w)
       THEN /\ Save(w, "model_tmp")
            /\ LogEpoch(w, "save")
            /\ Goto(w, IF xAssigned[w] THEN "loop_head" ELSE "crashed")
       ELSE /\ Goto(w, "loop_head")
            /\ UNCHANGED <<pending, hasSaved, epochLog>>
    /\ UNCHANGED <<world_size, loaded, loads, sched_epoch, lr, sched_bs, sched_lod,
                   rangeNext, epoch, drv, batchIdx, shape0, xAssigned, dSteps,
                   gSteps, batchLog, snap, disk, restarts, mismatched>>

\* if local_rank == 0: checkpointer.save("model_final") ...
Finish(w) ==
    /\ pc[w] = "finish"
    /\ IF IsCoordinator(w)
       THEN /\ Save(w, "model_final")
            /\ Goto(w, "final_wait")
       ELSE /\ Goto(w, "done")
            /\ UNCHANGED <<pending, hasSaved>>
    /\ UNCHANGED <<world_size, loaded, loads, sched_epoch, lr, sched_bs, sched_lod,
                   rangeNext, epoch, drv, batchIdx, shape0, xAssigned, dSteps,
                   gSteps, batchLog, epochLog, snap, disk, restarts, mismatched>>

\* The handle of the final save has completed.
FinalSaveWritten == pending = <<>> /\ disk.tag = "model_final"

\* Variant: the final save is dispatched like the others, without wait().
FinalNoWait(w) ==
    /\ pc[w] = "final_wait"
    /\ Goto(w, "done")
    /\ UNCHANGED <<world_size, loaded, loads, sched_epoch, lr, sched_bs, sched_lod,
                   rangeNext, epoch, drv, batchIdx, shape0, xAssigned, dSteps,
                   gSteps, batchLog, epochLog, hasSaved, snap, pending, disk, restarts, mismatched>>

\* ... .wait(): train() returns once the final save has been written.
FinalWait(w) ==
    /\ pc[w] = "final_wait"
    /\ FinalSaveWritten
    /\ Goto(w, "done")
    /\ UNCHANGED <<world_size, loaded, loads, sched_epoch, lr, sched_bs, sched_lod,
                   rangeNext, epoch, drv, batchIdx, shape0, xAssigned, dSteps,
                   gSteps, batchLog, epochLog, hasSaved, snap, pending, disk, restarts, mismatched>>

(***************************************************************************)
(* The asynchronous checkpoint writer: dispatched saves are written in     *)
(* the order of their dispatch; the file written last is the one load()    *)
(* finds.                                                                  *)
(***************************************************************************)
SaveComplete ==
    /\ pending # <<>>
    /\ disk' = Head(pending)
    /\ pending' = Tail(pending)
    /\ UNCHANGED <<world_size, pc, loaded, loads, sched_epoch, lr, sched_bs, sched_lod,
                   rangeNext, epoch, drv, batchIdx, shape0, xAssigned, dSteps,
                   gSteps, batchLog, epochLog, hasSaved, snap, restarts, mismatched>>

(***************************************************************************)
(* Collective operations: torch.distributed.barrier() and the gradient     *)
(* all-reduce of a DistributedDataParallel backward pass.  A collective    *)
(* completes when every worker has entered it.                             *)
(***************************************************************************)
CollectivePcs == {"barrier", "d_backward", "g_backward"}

CollectiveKind(l) == IF l = "barrier" THEN "barrier" ELSE "grad_sync"

AfterCollective(l) ==
    CASE l = "barrier" -> "shape_check"
      [] l = "d_backward" -> "d_step"
      [] l = "g_backward" -> "g_step"

AllInCollective == \A w \in Workers : pc[w] \in CollectivePcs

SameCollective == \A v, w \in Workers : CollectiveKind(pc[v]) = CollectiveKind(pc[w])

LeaveCollective ==
    /\ pc' = [w \in Workers |-> AfterCollective(pc[w])]
    /\ UNCHANGED <<world_size, loaded, loads, sched_epoch, lr, sched_bs, sched_lod,
                   rangeNext, epoch, drv, batchIdx, shape0, xAssigned, dSteps,
                   gSteps, batchLog, epochLog, hasSaved, snap, pending, disk, restarts>>

\* Every worker is in the same collective: it completes.
Collective ==
    /\ AllInCollective
    /\ SameCollective
    /\ LeaveCollective
    /\ UNCHANGED mismatched

\* The workers wait in different collectives (a barrier against a gradient
\* all-reduce).  The behaviour of mismatched collectives is undefined: they
\* may block forever (this action is never required to happen) or be matched
\* with each other and complete.  The model follows a run through the first
\* such completion; mismatched collectives after it block.
MismatchedCollective ==
    /\ AllInCollective
    /\ ~SameCollective
    /\ ~mismatched
    /\ LeaveCollective
    /\ mismatched' = TRUE

(***************************************************************************)
(* Crash and restart: every worker process is replaced by a fresh one;     *)
(* only the checkpoint on disk survives, saves not yet written are lost.   *)
(***************************************************************************)
Restart ==
    /\ restarts < MaxRestarts
    /\ restarts' = restarts + 1
    /\ FreshWorkers(world_size)
    /\ UNCHANGED disk

Next ==
    \/ \E w \in Workers : Load(w)
    \/ \E w \in Workers : EnterLoop(w)
    \/ \E w \in Workers : LoopHead(w)
    \/ \E w \in Workers : SetEpoch(w)
    \/ \E w \in Workers : DatasetReset(w)
    \/ \E w \in Workers : SetBatchSize(w)
    \/ \E w \in Workers : FetchBatch(w)
    \/ \E w \in Workers : BatchesExhausted(w)
    \/ \E w \in Workers : SkipBatch(w)
    \/ \E w \in Workers : AcceptBatch(w)
    \/ \E w \in Workers : DStep(w)
    \/ \E w \in Workers : SmoothUpdate(w)
    \/ \E w \in Workers : GForward(w)
    \/ \E w \in Workers : GStep(w)
    \/ \E w \in Workers : DriverStep(w)
    \/ \E w \in Workers : Cadence(w)
    \/ \E w \in Workers : SchedulerStep(w)
    \/ \E w \in Workers : EpochSave(w)
    \/ \E w \in Workers : Finish(w)
    \/ \E w \in Workers : FinalWait(w)
    \/ SaveComplete
    \/ Collective
    \/ MismatchedCollective
    \/ Restart

Spec == Init /\ [][Next]_vars

(***************************************************************************)
(* Properties.                                                             *)
(***************************************************************************)
IsPrefix(s, t) == Len(s) <= Len(t) /\ \A i \in 1 .. Len(s) : s[i] = t[i]

Range(s) == {s[i] : i \in 1 .. Len(s)}

\* The worker has restored a checkpoint and is in the first pass of its main
\* loop, right after the first set_epoch.
FirstSetEpochDone(w) ==
    /\ loaded[w].tag # "none"
    /\ pc[w] = "dataset_reset"
    /\ sched_epoch[w] = loaded[w].epoch

\* C1: round trip of save and load.  For every save (intermediate,
\* end-of-epoch, final), a fresh process that loads it and enters the main
\* loop has start_epoch, every optimizer's current_lr and the LOD Driver's
\* lod and blend_factor equal to the saving process's values right before
\* the save.
C1_SaveLoadRoundTrip ==
    \A w \in Workers :
        FirstSetEpochDone(w) =>
            /\ RangeStart(w) = loaded[w].epoch
            /\ lr[w] = loaded[w].lr
            /\ DriverLod(drv[w]) = loaded[w].at_lod
            /\ DriverBlend(drv[w]) = loaded[w].at_blend

\* C2 as stated: when the last confirmed save was made at epoch e, the
\* resumed run has start_epoch = e, its first set_epoch is set_epoch(e) and
\* its first lod is the one of epoch e.
C2_ResumeAtSaveEpoch ==
    \A w \in Workers :
        loaded[w].tag \in {"model_tmp_intermediate", "model_tmp"} =>
            /\ pc[w] = "enter_loop" => RangeStart(w) = loaded[w].at_epoch
            /\ FirstSetEpochDone(w) =>
                  /\ drv[w].current_epoch = loaded[w].at_epoch
                  /\ DriverLod(drv[w]) = loaded[w].at_lod

\* C2 (amended): when the last confirmed save was an intermediate save made
\* during epoch e, the resumed run has start_epoch = e, its first set_epoch is
\* set_epoch(e), and its first lod and blend_factor are those of the start of
\* epoch e (iteration 0); when it was the end-of-epoch save of epoch e, the
\* resumed run has start_epoch = e + 1 and its first set_epoch is
\* set_epoch(e + 1).
C2_ResumeEpoch ==
    \A w \in Workers :
        /\ loaded[w].tag = "model_tmp_intermediate" =>
              /\ pc[w] = "enter_loop" => sched_epoch[w] = loaded[w].at_epoch
              /\ FirstSetEpochDone(w) =>
                    /\ drv[w].current_epoch = loaded[w].at_epoch
                    /\ DriverLod(drv[w]) = loaded[w].at_lod
                    /\ DriverBlend(drv[w]) = BlendFactor(loaded[w].at_epoch, 0)
        /\ loaded[w].tag = "model_tmp" =>
              /\ pc[w] = "enter_loop" => sched_epoch[w] = loaded[w].at_epoch + 1
              /\ FirstSetEpochDone(w) =>
                    drv[w].current_epoch = loaded[w].at_epoch + 1

\* A run resumed from an intermediate save made in the middle of a fade-in
\* has made its first set_epoch.
C2_Witness ==
    \E w \in Workers :
        /\ FirstSetEpochDone(w)
        /\ loaded[w].tag = "model_tmp_intermediate"
        /\ loaded[w].at_blend > 0

\* C3: no worker other than rank 0 has invoked checkpointer.save; every
\* worker has invoked checkpointer.load() exactly once when it is past the
\* call, and before its first set_epoch.
C3_OnlyRankZeroSaves ==
    \A w \in Workers :
        /\ w # 0 => ~hasSaved[w]
        /\ loads[w] = IF pc[w] = "start" THEN 0 ELSE 1
        /\ (epochLog[w] # <<>> \/ drv[w] # NewDriver) => loads[w] = 1

\* Two workers have finished training; rank 0 has saved, rank 1 has not.
C3_Witness ==
    /\ world_size = 2
    /\ \A w \in Workers : pc[w] = "done" /\ loads[w] = 1 /\ dSteps[w] > 0
    /\ hasSaved[0]

\* C4: the coordinating worker has not returned from train() unless the final
\* checkpoint (model_final) has been written, also when the main loop ran
\* zero epochs.
C4_FinalSaveAwaited ==
    \A w \in Workers :
        (w = 0 /\ pc[w] = "done") => (pending = <<>> /\ disk.tag = "model_final")

\* Rank 0 has returned from a run that resumed at start_epoch >= TRAIN_EPOCHS,
\* whose main loop ran zero epochs.
C4_Witness ==
    /\ pc[0] = "done"
    /\ loaded[0].tag # "none"
    /\ loaded[0].epoch >= TRAIN_EPOCHS
    /\ hasSaved[0]

\* C5: once a batch size has been set, each optimizer's current_lr equals
\* base_lr * (batch_size / reference_batch_size) * gamma^k, with batch_size
\* the most recently set one and k the number of milestones passed; stated
\* with both sides multiplied by GammaDen^k.
C5_CurrentLrFormula ==
    \A w \in Workers : \A o \in Optimizers :
        sched_bs[w] # 0 =>
            lr[w][o] * Pow(GammaDen, MilestonesPassed(sched_epoch[w]))
              = ScaledLr(sched_bs[w], sched_lod[w])
                  * Pow(GammaNum, MilestonesPassed(sched_epoch[w]))

\* C6: workers that arrive at the same per-batch barrier (same epoch, same
\* batch) do so with the same LOD Driver iteration and the same numbers of
\* completed discriminator and generator steps.
C6_ConsistentAtBarrier ==
    \A v, w \in Workers :
        (snap[v].epoch = snap[w].epoch /\ snap[v].batch = snap[w].batch)
            => snap[v] = snap[w]

\* C7: a batch of the wrong shape is a recoverable skip: the step that
\* discards it makes no optimizer step, no tracker or smoothed-model update,
\* no Driver.step(), no cadence check and no save, and leaves the worker at the
\* head of the batch loop of the same epoch.
C7_SkipIsRecoverable ==
    [][\A w \in Workers :
          (/\ pc[w] = "shape_check"
           /\ shape0[w] # GetPerGPUBatchSize(drv[w])
           /\ restarts' = restarts
           /\ pc'[w] # pc[w])
          => /\ pc'[w] = "next_batch"
             /\ dSteps'[w] = dSteps[w]
             /\ gSteps'[w] = gSteps[w]
             /\ drv'[w] = drv[w]
             /\ batchLog'[w] = <<>>
             /\ epochLog'[w] = epochLog[w]
             /\ hasSaved'[w] = hasSaved[w]
             /\ pending' = pending
             /\ epoch'[w] = epoch[w]
             /\ batchIdx'[w] = batchIdx[w]
             /\ lr'[w] = lr[w]]_vars

\* A worker is back at the head of the batch loop after discarding the first
\* batch of an epoch, with a batch of the same epoch still to come.
C7_Witness ==
    \E w \in Workers :
        /\ pc[w] = "next_batch"
        /\ batchIdx[w] = 1
        /\ batchIdx[w] < NumBatches
        /\ batchLog[w] = <<>>
        /\ drv[w].iteration = 0

\* The optimizer, smoothed-model, Driver and cadence calls of a batch (the
\* tracker updates left out).
BatchCalls(w) == SelectSeq(batchLog[w], LAMBDA ev : ev \notin {"tracker_d", "tracker_g"})

\* C8: for an accepted batch the coordinating worker's calls are, in this
\* order, the discriminator step, the generator step, the smoothed-model
\* update, Driver.step() and the cadence checks.
C8_BatchCallOrder ==
    \A w \in Workers :
        w = 0 => IsPrefix(BatchCalls(w),
                          <<"d_step", "g_step", "ema", "driver_step", "cadence">>)

EpochOrder(w) ==
    <<"set_epoch", "dataset_reset", "set_batch_size", "batches", "sched_step">>
        \o (IF w = 0 THEN <<"save">> ELSE <<>>)

BatchPcs ==
    {"barrier", "shape_check", "d_backward", "d_step", "ema", "g_forward",
     "g_backward", "g_step", "driver_step", "cadence"}

\* C9: in every epoch set_epoch, the data source reconfiguration and
\* set_batch_size are called once each, in this order, before the first batch;
\* scheduler.step() is called once after the last batch and before the
\* end-of-epoch save, whose manifest therefore holds the epoch counter that
\* counts the epoch just finished.
C9_EpochCallOrder ==
    /\ \A w \in Workers :
          /\ IsPrefix(epochLog[w], EpochOrder(w))
          /\ pc[w] \in BatchPcs => Len(epochLog[w]) = 4
          /\ pc[w] = "epoch_save" => Len(epochLog[w]) = 5
    /\ \A m \in Range(pending) \cup {disk} :
          m.tag = "model_tmp" => m.epoch = m.at_epoch + 1

\* Rank 0 has completed an epoch and dispatched its end-of-epoch save.
C9_Witness ==
    /\ pc[0] = "loop_head"
    /\ epochLog[0] = EpochOrder(0)
    /\ \E m \in Range(pending) :
          m.tag = "model_tmp" /\ m.at_epoch = epoch[0] /\ m.epoch = epoch[0] + 1

\* C10: with data sources that yield the same number of batches to every
\* worker, no worker blocks forever in a collective operation: as long as no
\* mismatched collectives have been completed, no worker waits in a
\* collective that a peer, having returned from train(), will never enter.
C10_NoWorkerBlockedForever ==
    ~mismatched =>
        ~ \E v, w \in Workers : pc[v] \in CollectivePcs /\ pc[w] = "done"

\* C11: whenever the coordinating worker's end-of-epoch sample report reads
\* the image batch x, x has been assigned by an accepted batch, so that every
\* epoch, one whose batches were all skipped included, completes its
\* scheduler.step(), end-of-epoch save and report without error.
C11_ReportReadsAssignedX ==
    \A w \in Workers :
        /\ (w = 0 /\ pc[w] = "epoch_save") => xAssigned[w]
        /\ pc[w] # "crashed"

====
